---- MODULE Spec2Model ----
(***************************************************************************)
(* Model of the Codolio scraper service (src/app.py).                      *)
(*                                                                         *)
(* Text is a sequence of tokens.  A token is one character (" ", ",",      *)
(* ">", a digit) or one whole word ("Awards", "Total"): word tokens stand  *)
(* for runs of letters, so substring search works at word granularity.     *)
(* Python None / JS null is the one-token sequence <<"None">>.             *)
(***************************************************************************)
EXTENDS Integers, Sequences, FiniteSets, TLC

\* ---- bounds ----
NumRequests == 2
MaxUserLen == 2
MaxMissing == 1
MaxHtmlLen == 4
MaxTextLen == 5

Requests == 1..NumRequests

\* ---- values ----
None == <<"None">>
ZERO == <<"0">>
NoNode == <<"NoNode">>
NBSP == "nbsp"

Digits == {"0", "1", "2", "3", "4", "5", "6", "7", "8", "9"}
Whitespace == {" ", "\n", "\t"}
NonWord == Whitespace \cup {NBSP, ",", ">", "<", ".", "/"}

IsDigit(c) == c \in Digits
IsSpace(c) == c \in Whitespace
IsWordChar(c) == c \notin NonWord

\* str.lower() / String.prototype.toLowerCase() on one token
LowerChar(c) ==
  CASE c = "Total" -> "total"
    [] c = "Questions" -> "questions"
    [] c = "Active" -> "active"
    [] c = "Days" -> "days"
    [] c = "Max" -> "max"
    [] c = "Streak" -> "streak"
    [] c = "Current" -> "current"
    [] c = "Contests" -> "contests"
    [] c = "Awards" -> "awards"
    [] c = "AWARDS" -> "awards"
    [] c = "Fundamentals" -> "fundamentals"
    [] c = "DSA" -> "dsa"
    [] c = "Easy" -> "easy"
    [] c = "Medium" -> "medium"
    [] c = "Hard" -> "hard"
    [] c = "Competitive" -> "competitive"
    [] c = "Programming" -> "programming"
    [] c = "Codechef" -> "codechef"
    [] c = "CodeChef" -> "codechef"
    [] c = "Codeforces" -> "codeforces"
    [] c = "HackerRank" -> "hackerrank"
    [] c = "LeetCode" -> "leetcode"
    [] c = "Submissions" -> "submissions"
    [] c = "SUBMISSIONS" -> "submissions"
    [] OTHER -> c

\* U+0130 (capital I with dot above) lower-cases to two code units
IDOT == "I_dot"
LowerUnits(c) == IF c = IDOT THEN <<"i", "dot_above">> ELSE <<LowerChar(c)>>

RECURSIVE ToLowerCase(_)
ToLowerCase(s) == IF s = <<>> THEN <<>> ELSE LowerUnits(Head(s)) \o ToLowerCase(Tail(s))

\* text.replace(/\\u00A0/g, ' ')
ReplaceNbsp(s) == [i \in 1..Len(s) |-> IF s[i] = NBSP THEN " " ELSE s[i]]

\* str.strip() / String.prototype.trim()
RECURSIVE LStrip(_)
LStrip(s) == IF Len(s) > 0 /\ IsSpace(Head(s)) THEN LStrip(Tail(s)) ELSE s

RECURSIVE RStrip(_)
RStrip(s) ==
  IF Len(s) > 0 /\ IsSpace(s[Len(s)]) THEN RStrip(SubSeq(s, 1, Len(s) - 1)) ELSE s

strip(s) == RStrip(LStrip(s))

\* String.prototype.indexOf: 0-based index of the first occurrence, -1 if none
RECURSIVE IndexFrom(_, _, _)
IndexFrom(text, label, i) ==
  IF i + Len(label) > Len(text) THEN -1
  ELSE IF SubSeq(text, i + 1, i + Len(label)) = label THEN i
  ELSE IndexFrom(text, label, i + 1)

indexOf(text, label) == IndexFrom(text, label, 0)

\* String.prototype.slice(idx)
sliceFrom(text, idx) == SubSeq(text, idx + 1, Len(text))

\* end of the \d+ that starts at position i (s[i] is a digit)
RECURSIVE DigitRunEnd(_, _)
DigitRunEnd(s, i) ==
  IF i < Len(s) /\ IsDigit(s[i + 1]) THEN DigitRunEnd(s, i + 1) ELSE i

\* end of (?:,\d+)* after a digit run that ends at e
RECURSIVE GroupedEnd(_, _)
GroupedEnd(s, e) ==
  IF e + 2 <= Len(s) /\ s[e + 1] = "," /\ IsDigit(s[e + 2])
  THEN GroupedEnd(s, DigitRunEnd(s, e + 2))
  ELSE e

\* s.match(/(\d+(?:,\d+)*)/): group 1 of the leftmost match, or null
RECURSIVE MatchNumberFrom(_, _)
MatchNumberFrom(s, i) ==
  IF i > Len(s) THEN None
  ELSE IF IsDigit(s[i]) THEN SubSeq(s, i, GroupedEnd(s, DigitRunEnd(s, i)))
  ELSE MatchNumberFrom(s, i + 1)

matchNumber(s) == MatchNumberFrom(s, 1)

\* the script evaluated on the located element by get_number_after_text
AfterLabelIgnoringIndex(text, label) == matchNumber(text)

AfterLabel(text, label) ==
  LET idx == indexOf(ToLowerCase(text), ToLowerCase(label))
      m == IF idx >= 0 THEN matchNumber(sliceFrom(text, idx)) ELSE None
  IN IF m # None THEN m ELSE matchNumber(text)

numberScript(innerText, label) == AfterLabel(strip(ReplaceNbsp(innerText)), label)

\* \s* starting at position i: first position that is not whitespace
RECURSIVE SkipSpace(_, _)
SkipSpace(s, i) == IF i <= Len(s) /\ IsSpace(s[i]) THEN SkipSpace(s, i + 1) ELSE i

\* a word of the pattern against a word of the markup, under re.IGNORECASE
WordEqCaseSensitive(c, w) == c = w

WordEq(c, w) == LowerChar(c) = w

\* >\s*(\d+)\s*submissions\b tried at start position i; group 1 or null
MatchSubmissionsAt(html, i) ==
  IF html[i] # ">" THEN None
  ELSE LET d == SkipSpace(html, i + 1)
       IN IF d > Len(html) \/ ~IsDigit(html[d]) THEN None
          ELSE LET e == DigitRunEnd(html, d)
                   w == SkipSpace(html, e + 1)
               IN IF w <= Len(html) /\ WordEq(html[w], "submissions")
                     /\ (w = Len(html) \/ ~IsWordChar(html[w + 1]))
                  THEN SubSeq(html, d, e)
                  ELSE None

\* re.search(pattern, html, flags=re.IGNORECASE): leftmost match
RECURSIVE SearchSubmissionsFrom(_, _)
SearchSubmissionsFrom(html, i) ==
  IF i > Len(html) THEN None
  ELSE IF MatchSubmissionsAt(html, i) # None THEN MatchSubmissionsAt(html, i)
  ELSE SearchSubmissionsFrom(html, i + 1)

searchSubmissions(html) == SearchSubmissionsFrom(html, 1)

\* text.match(/\b(\d{3,5})\b/g): the matches are the maximal digit runs of
\* length 3..5 with a word boundary on both sides, left to right
RatingMatches(text) ==
  {i \in 1..Len(text) :
     /\ IsDigit(text[i])
     /\ (i = 1 \/ ~IsWordChar(text[i - 1]))
     /\ LET e == DigitRunEnd(text, i)
        IN /\ e - i + 1 >= 3
           /\ e - i + 1 <= 5
           /\ (e = Len(text) \/ ~IsWordChar(text[e + 1]))}

SetMax(S) == CHOOSE x \in S : \A y \in S : y <= x

\* the script evaluated on the located element by extract_rating
ratingScript(innerText) ==
  LET text == ReplaceNbsp(innerText)
      ms == RatingMatches(text)
  IN IF ms = {} THEN None
     ELSE SubSeq(text, SetMax(ms), DigitRunEnd(text, SetMax(ms)))

\* Python truthiness of a str-or-None, and `val or "0"`
Truthy(v) == v # None /\ v # <<>>
OrZero(v) == IF Truthy(v) THEN v ELSE ZERO

\* ---- the extraction sequence of scrape_codolio ----
ExtractionPlan == <<
  [group |-> "basicStats", key |-> "total_questions",
   fn |-> "get_number_after_text", label |-> <<"Total", " ", "Questions">>],
  [group |-> "basicStats", key |-> "total_active_days",
   fn |-> "get_number_after_text", label |-> <<"Total", " ", "Active", " ", "Days">>],
  [group |-> "basicStats", key |-> "total_submissions",
   fn |-> "find_number_by_regex", label |-> <<>>],
  [group |-> "basicStats", key |-> "max_streak",
   fn |-> "get_number_after_text", label |-> <<"Max", ".", "Streak">>],
  [group |-> "basicStats", key |-> "current_streak",
   fn |-> "get_number_after_text", label |-> <<"Current", ".", "Streak">>],
  [group |-> "basicStats", key |-> "total_contests",
   fn |-> "get_number_after_text", label |-> <<"Total", " ", "Contests">>],
  [group |-> "basicStats", key |-> "awards",
   fn |-> "get_number_after_text", label |-> <<"Awards">>],
  [group |-> "problemsSolved", key |-> "fundamentals",
   fn |-> "get_number_after_text", label |-> <<"Fundamentals">>],
  [group |-> "problemsSolved", key |-> "dsa",
   fn |-> "get_number_after_text", label |-> <<"DSA">>],
  [group |-> "problemsSolved", key |-> "easy",
   fn |-> "get_number_after_text", label |-> <<"Easy">>],
  [group |-> "problemsSolved", key |-> "medium",
   fn |-> "get_number_after_text", label |-> <<"Medium">>],
  [group |-> "problemsSolved", key |-> "hard",
   fn |-> "get_number_after_text", label |-> <<"Hard">>],
  [group |-> "problemsSolved", key |-> "competitive_programming",
   fn |-> "get_number_after_text", label |-> <<"Competitive", " ", "Programming">>],
  [group |-> "problemsSolved", key |-> "codechef",
   fn |-> "get_number_after_text", label |-> <<"Codechef">>],
  [group |-> "problemsSolved", key |-> "codeforces",
   fn |-> "get_number_after_text", label |-> <<"Codeforces">>],
  [group |-> "problemsSolved", key |-> "hackerrank",
   fn |-> "get_number_after_text", label |-> <<"HackerRank">>],
  [group |-> "contestRankings", key |-> "leetcode",
   fn |-> "extract_rating", label |-> <<"LeetCode">>],
  [group |-> "contestRankings", key |-> "codechef",
   fn |-> "extract_rating", label |-> <<"CodeChef">>] >>

PlanLen == Len(ExtractionPlan)
PlanSteps == 1..PlanLen
LabelSteps == {i \in PlanSteps : ExtractionPlan[i].fn # "find_number_by_regex"}

BasicStatsKeys == {ExtractionPlan[i].key : i \in {j \in PlanSteps : ExtractionPlan[j].group = "basicStats"}}
ProblemsSolvedKeys == {ExtractionPlan[i].key : i \in {j \in PlanSteps : ExtractionPlan[j].group = "problemsSolved"}}

\* ---- the rendered profile page, as the browser driver exposes it ----
\* get_by_text(label, exact=False) matches case-insensitively, so the first
\* matching node is keyed by the lower-cased label; nodes[k] is the innerText
\* of that node's container, or NoNode.  raises is the set of extraction
\* steps whose driver call raises.
NodeKey(label) == ToLowerCase(label)
LabelKeys == {NodeKey(ExtractionPlan[i].label) : i \in LabelSteps}
LandmarkKey == NodeKey(<<"Total", " ", "Questions">>)
RatingKeys == {NodeKey(ExtractionPlan[i].label) : i \in {j \in PlanSteps : ExtractionPlan[j].fn = "extract_rating"}}

BaselineHtml == <<"<", "p", ">", "8", "7", " ", "submissions", "<", "/", "p", ">">>
PlainHtml == <<"<", "p", ">", "hello", "<", "/", "p", ">">>

BaselineSite ==
  [html |-> BaselineHtml,
   nodes |-> [k \in LabelKeys |->
                IF k \in RatingKeys THEN k \o <<" ", "1", "5", "0", "0">>
                ELSE k \o <<" ", "1", ",", "2", "3", "4">>],
   raises |-> {}]

BlankSite == [html |-> <<>>, nodes |-> [k \in LabelKeys |-> NoNode], raises |-> {}]

Deviations ==
  {[kind |-> "nonode", key |-> k, step |-> 0] : k \in LabelKeys}
  \cup {[kind |-> "nodigits", key |-> k, step |-> 0] : k \in LabelKeys}
  \cup {[kind |-> "raise", key |-> <<>>, step |-> i] : i \in PlanSteps}
  \cup {[kind |-> "html", key |-> <<>>, step |-> 0]}

ApplyDeviation(s, d) ==
  CASE d.kind = "nonode" -> [s EXCEPT !.nodes[d.key] = NoNode]
    [] d.kind = "nodigits" -> [s EXCEPT !.nodes[d.key] = d.key]
    [] d.kind = "raise" -> [s EXCEPT !.raises = @ \cup {d.step}]
    [] OTHER -> [s EXCEPT !.html = PlainHtml]

RECURSIVE SitesUpTo(_)
SitesUpTo(n) ==
  IF n = 0 THEN {BaselineSite}
  ELSE SitesUpTo(n - 1) \cup {ApplyDeviation(s, d) : s \in SitesUpTo(n - 1), d \in Deviations}

RECURSIVE SeqsUpTo(_, _)
SeqsUpTo(A, n) ==
  IF n = 0 THEN {<<>>}
  ELSE SeqsUpTo(A, n - 1) \cup {Append(s, a) : s \in SeqsUpTo(A, n - 1), a \in A}

UserAlphabet == {" ", "a"}
HtmlAlphabet == {">", " ", "8", "7", "Submissions", "x"}
TextAlphabet == {"Awards", "1", "2", ",", " ", IDOT}
AwardsKey == NodeKey(<<"Awards">>)

Usernames == SeqsUpTo(UserAlphabet, MaxUserLen)
Routes == {"GET", "POST"}

\* ---- exceptions, responses ----
NoExc == [type |-> "none", msg |-> <<>>]
DriverExcs == {[type |-> "PWTimeout", msg |-> <<"Timeout exceeded">>],
               [type |-> "Error", msg |-> <<"net::ERR_FAILED">>]}
NoFault == [step |-> "none", type |-> "none", msg |-> <<>>]

EmptyData == [basicStats |-> <<>>, problemsSolved |-> <<>>, contestRankings |-> <<>>]

\* dict[key] = value
SetItem(d, k, v) == (k :> v) @@ d

\* pc[r]         where request r stands in its handler and in scrape_codolio
\* route[r]      "GET" /codolio/{username} or "POST" /codolio
\* username[r]   the username as received
\* site[r]       what codolio.com serves for that profile (the environment)
\* arg[r]        username.strip(), the argument of scrape_codolio
\* playwright[r] the driver of the async-with block: none, running, stopped
\* browser[r]    the local `browser`: the id of a launched browser, 0 before
\* browsers[b]   the browser objects: launcher, open or closed, close() calls
\*               and callers, and the page loaded in it
\* idx[r]        the next step of the extraction sequence
\* data[r]       the local `data`
\* exc[r]        the exception bound in the except clause being run
\* fault[r]      history: the driver failure the request met, if any
\* calls[r]      history: the driver calls and lookups made for the request
\* responses[r]  the HTTP responses sent for the request
VARIABLES pc, route, username, site, arg, playwright, browser, browsers,
          idx, data, exc, fault, calls, responses

vars == <<pc, route, username, site, arg, playwright, browser, browsers,
          idx, data, exc, fault, calls, responses>>

NoBrowser == [owner |-> 0, open |-> FALSE, closeCalls |-> 0, closedBy |-> {},
              content |-> BlankSite]

\* ---- helpers of the handlers ----
\* `not username or len(username.strip()) == 0`
IsEmptyUsernameNoStrip(u) == Len(u) = 0

IsEmptyUsername(u) == Len(u) = 0 \/ Len(strip(u)) = 0

\* p.chromium.launch(): every call creates a browser of its own
LaunchShared(r) == 1

LaunchBrowser(r) == r

\* which except clause of the page-load try statement takes the exception
LoadHandlerNoTimeoutClause(e) == "except_Exception"

LoadHandler(e) == IF e.type = "PWTimeout" THEN "except_PWTimeout" ELSE "except_Exception"

\* the 200 envelope of the route handlers
SuccessEnvelopeNoData(u, d) == [success |-> TRUE, username |-> u]

SuccessEnvelope(u, d) == [success |-> TRUE, username |-> u, data |-> d]

\* FastAPI's response to a raised HTTPException(status_code, detail)
ErrorResponse(status, detail) == [status |-> status, body |-> [detail |-> detail]]

\* `except Exception as e: raise HTTPException(status_code=500, detail=str(e))`
HandlerCatch(e) == ErrorResponse(500, e.msg)

\* the value returned by one helper call of the extraction sequence
get_number_after_text(content, i, label) ==
  IF i \in content.raises THEN None
  ELSE IF content.nodes[NodeKey(label)] = NoNode THEN None
  ELSE numberScript(content.nodes[NodeKey(label)], label)

find_number_by_regex(content, i) ==
  IF i \in content.raises THEN None ELSE searchSubmissions(content.html)

extract_rating(content, i, label) ==
  IF i \in content.raises THEN None
  ELSE IF content.nodes[NodeKey(label)] = NoNode THEN None
  ELSE ratingScript(content.nodes[NodeKey(label)])

\* a closed browser makes every driver call of a helper raise
Visible(b) == IF b.open THEN b.content ELSE [b.content EXCEPT !.raises = PlanSteps]

\* data after the assignment of extraction step i
Store(d, i, content) ==
  LET st == ExtractionPlan[i]
  IN CASE st.group = "basicStats" ->
            [d EXCEPT !.basicStats =
               SetItem(@, st.key,
                       IF st.fn = "find_number_by_regex"
                       THEN find_number_by_regex(content, i)
                       ELSE get_number_after_text(content, i, st.label))]
       [] st.group = "problemsSolved" ->
            [d EXCEPT !.problemsSolved =
               SetItem(@, st.key, OrZero(get_number_after_text(content, i, st.label)))]
       [] OTHER ->
            IF Truthy(extract_rating(content, i, st.label))
            THEN [d EXCEPT !.contestRankings =
                    SetItem(@, st.key, [rating |-> extract_rating(content, i, st.label)])]
            ELSE d

StepName(i) == <<ExtractionPlan[i].group, ExtractionPlan[i].key>>

\* ---- state changes shared by the actions ----
Respond(r, resp) ==
  /\ responses' = [responses EXCEPT ![r] = Append(@, resp)]
  /\ pc' = [pc EXCEPT ![r] = "done"]

\* the log of the driver calls and lookups a request has made
Called(r, name) == calls' = [calls EXCEPT ![r] = Append(@, name)]

\* browser.close()
Close(r) ==
  browsers' = [browsers EXCEPT ![browser[r]] =
                 [@ EXCEPT !.open = FALSE, !.closeCalls = @ + 1,
                           !.closedBy = @ \cup {r}]]

\* an exception that leaves scrape_codolio without passing an except clause
\* of its own: the async-with block stops the driver, the route handler
\* turns it into a 500
Propagate(r, step, e) ==
  /\ fault' = [fault EXCEPT ![r] = [step |-> step, type |-> e.type, msg |-> e.msg]]
  /\ playwright' = [playwright EXCEPT ![r] = "stopped"]
  /\ Respond(r, HandlerCatch(e))

\* an exception raised inside the page-load try statement
CaughtOnLoad(r, step, e) ==
  /\ fault' = [fault EXCEPT ![r] = [step |-> step, type |-> e.type, msg |-> e.msg]]
  /\ exc' = [exc EXCEPT ![r] = e]
  /\ pc' = [pc EXCEPT ![r] = LoadHandler(e)]

\* ---- actions ----
\* route handler up to the call of scrape_codolio
Enter(r) ==
  IF IsEmptyUsername(username[r])
  THEN /\ Respond(r, ErrorResponse(400, <<"Username cannot be empty">>))
       /\ UNCHANGED <<route, username, site, arg, playwright, browser, browsers,
                      idx, data, exc, fault, calls>>
  ELSE /\ arg' = [arg EXCEPT ![r] = strip(username[r])]
       /\ pc' = [pc EXCEPT ![r] = "async_playwright"]
       /\ UNCHANGED <<route, username, site, playwright, browser, browsers,
                      idx, data, exc, fault, calls, responses>>

get_codolio_profile(r) ==
  /\ pc[r] = "request"
  /\ route[r] = "GET"
  /\ Enter(r)

post_codolio_profile(r) ==
  /\ pc[r] = "request"
  /\ route[r] = "POST"
  /\ Enter(r)

\* async with async_playwright() as p
StartPlaywright(r) ==
  /\ pc[r] = "async_playwright"
  /\ \/ /\ playwright' = [playwright EXCEPT ![r] = "running"]
        /\ pc' = [pc EXCEPT ![r] = "launch"]
        /\ UNCHANGED <<fault, responses>>
     \/ \E e \in {x \in DriverExcs : x.type = "Error"} :
          Propagate(r, "async_playwright", e)
  /\ UNCHANGED <<route, username, site, arg, browser, browsers, idx, data, exc, calls>>

\* browser = await p.chromium.launch(...)
Launch(r) ==
  /\ pc[r] = "launch"
  /\ Called(r, <<"launch">>)
  /\ \/ /\ browser' = [browser EXCEPT ![r] = LaunchBrowser(r)]
        /\ browsers' = [browsers EXCEPT ![LaunchBrowser(r)] =
                          [NoBrowser EXCEPT !.owner = r, !.open = TRUE]]
        /\ pc' = [pc EXCEPT ![r] = "new_context"]
        /\ UNCHANGED <<playwright, fault, responses>>
     \/ /\ \E e \in DriverExcs : Propagate(r, "launch", e)
        /\ UNCHANGED <<browser, browsers>>
  /\ UNCHANGED <<route, username, site, arg, idx, data, exc>>

\* context = await browser.new_context(...)
NewContext(r) ==
  /\ pc[r] = "new_context"
  /\ Called(r, <<"new_context">>)
  /\ \/ /\ browsers[browser[r]].open
        /\ pc' = [pc EXCEPT ![r] = "new_page"]
        /\ UNCHANGED <<playwright, fault, responses>>
     \/ \E e \in DriverExcs : Propagate(r, "new_context", e)
  /\ UNCHANGED <<route, username, site, arg, browser, browsers, idx, data, exc>>

\* page = await context.new_page()
NewPage(r) ==
  /\ pc[r] = "new_page"
  /\ Called(r, <<"new_page">>)
  /\ \/ /\ browsers[browser[r]].open
        /\ pc' = [pc EXCEPT ![r] = "goto"]
        /\ UNCHANGED <<playwright, fault, responses>>
     \/ \E e \in DriverExcs : Propagate(r, "new_page", e)
  /\ UNCHANGED <<route, username, site, arg, browser, browsers, idx, data, exc>>

\* await page.goto(url, wait_until="networkidle", timeout=30000)
Goto(r) ==
  /\ pc[r] = "goto"
  /\ Called(r, <<"goto">>)
  /\ \/ /\ browsers[browser[r]].open
        /\ browsers' = [browsers EXCEPT ![browser[r]].content = site[r]]
        /\ pc' = [pc EXCEPT ![r] = "wait_for_selector"]
        /\ UNCHANGED <<exc, fault>>
     \/ /\ \E e \in DriverExcs : CaughtOnLoad(r, "goto", e)
        /\ UNCHANGED browsers
  /\ UNCHANGED <<route, username, site, arg, playwright, browser, idx, data, responses>>

\* await page.wait_for_selector("text=Total Questions", timeout=20000)
WaitForSelector(r) ==
  /\ pc[r] = "wait_for_selector"
  /\ Called(r, <<"wait_for_selector">>)
  /\ \/ /\ browsers[browser[r]].open
        /\ browsers[browser[r]].content.nodes[LandmarkKey] # NoNode
        /\ pc' = [pc EXCEPT ![r] = "wait_for_timeout"]
        /\ UNCHANGED <<exc, fault>>
     \/ \E e \in DriverExcs : CaughtOnLoad(r, "wait_for_selector", e)
  /\ UNCHANGED <<route, username, site, arg, playwright, browser, browsers, idx,
                 data, responses>>

\* await page.wait_for_timeout(3000); data = {...}
WaitForTimeout(r) ==
  /\ pc[r] = "wait_for_timeout"
  /\ Called(r, <<"wait_for_timeout">>)
  /\ \/ /\ browsers[browser[r]].open
        /\ data' = [data EXCEPT ![r] = EmptyData]
        /\ idx' = [idx EXCEPT ![r] = 1]
        /\ pc' = [pc EXCEPT ![r] = "extract"]
        /\ UNCHANGED <<exc, fault>>
     \/ /\ \E e \in {x \in DriverExcs : x.type = "Error"} :
             CaughtOnLoad(r, "wait_for_timeout", e)
        /\ UNCHANGED <<data, idx>>
  /\ UNCHANGED <<route, username, site, arg, playwright, browser, browsers, responses>>

\* except PWTimeout: await browser.close(); raise HTTPException(504, ...)
ExceptPWTimeout(r) ==
  /\ pc[r] = "except_PWTimeout"
  /\ Called(r, <<"close">>)
  /\ Close(r)
  /\ playwright' = [playwright EXCEPT ![r] = "stopped"]
  /\ Respond(r, ErrorResponse(504, <<"Timeout loading profile for ">> \o arg[r]))
  /\ UNCHANGED <<route, username, site, arg, browser, idx, data, exc, fault>>

\* except Exception as e: await browser.close(); raise HTTPException(500, ...)
ExceptException(r) ==
  /\ pc[r] = "except_Exception"
  /\ Called(r, <<"close">>)
  /\ Close(r)
  /\ playwright' = [playwright EXCEPT ![r] = "stopped"]
  /\ Respond(r, ErrorResponse(500, <<"Failed to load profile: ">> \o exc[r].msg))
  /\ UNCHANGED <<route, username, site, arg, browser, idx, data, exc, fault>>

\* one assignment of the extraction sequence (lines 101-151).  The helpers
\* catch every exception themselves, so nothing reaches the except clause of
\* lines 153-155 and the sequence always runs to its end.
Extract(r) ==
  /\ pc[r] = "extract"
  /\ Called(r, StepName(idx[r]))
  /\ data' = [data EXCEPT ![r] = Store(@, idx[r], Visible(browsers[browser[r]]))]
  /\ IF idx[r] = PlanLen
     THEN /\ pc' = [pc EXCEPT ![r] = "close"]
          /\ UNCHANGED idx
     ELSE /\ idx' = [idx EXCEPT ![r] = @ + 1]
          /\ UNCHANGED pc
  /\ UNCHANGED <<route, username, site, arg, playwright, browser, browsers, exc,
                 fault, responses>>

\* await browser.close(); return data; the route handler returns the envelope
CloseAndReturn(r) ==
  /\ pc[r] = "close"
  /\ Called(r, <<"close">>)
  /\ Close(r)
  /\ playwright' = [playwright EXCEPT ![r] = "stopped"]
  /\ Respond(r, [status |-> 200, body |-> SuccessEnvelope(username[r], data[r])])
  /\ UNCHANGED <<route, username, site, arg, browser, idx, data, exc, fault>>

Next ==
  \E r \in Requests :
    \/ get_codolio_profile(r)
    \/ post_codolio_profile(r)
    \/ StartPlaywright(r)
    \/ Launch(r)
    \/ NewContext(r)
    \/ NewPage(r)
    \/ Goto(r)
    \/ WaitForSelector(r)
    \/ WaitForTimeout(r)
    \/ ExceptPWTimeout(r)
    \/ ExceptException(r)
    \/ Extract(r)
    \/ CloseAndReturn(r)

\* ---- initial states ----
\* everything but the requests' inputs
InitLocals ==
  /\ arg = [r \in Requests |-> <<>>]
  /\ playwright = [r \in Requests |-> "none"]
  /\ browser = [r \in Requests |-> 0]
  /\ browsers = [b \in Requests |-> NoBrowser]
  /\ idx = [r \in Requests |-> 0]
  /\ data = [r \in Requests |-> EmptyData]
  /\ exc = [r \in Requests |-> NoExc]
  /\ fault = [r \in Requests |-> NoFault]
  /\ calls = [r \in Requests |-> <<>>]
  /\ responses = [r \in Requests |-> <<>>]

\* request 1 arrives, the other slots stay unused
OneRequest(inputs) ==
  /\ pc = [r \in Requests |-> IF r = 1 THEN "request" ELSE "unused"]
  /\ \E in \in inputs :
       /\ route = [r \in Requests |-> in.route]
       /\ username = [r \in Requests |-> in.username]
       /\ site = [r \in Requests |-> in.site]

\* one request: any username against the baseline page, or a username "a"
\* against a page with at most MaxMissing deviations from the baseline
SpecInputs ==
  {[route |-> ro, username |-> u, site |-> BaselineSite] : ro \in Routes, u \in Usernames}
  \cup {[route |-> ro, username |-> <<"a">>, site |-> s] :
          ro \in Routes, s \in SitesUpTo(MaxMissing)}

Init == InitLocals /\ OneRequest(SpecInputs)

Spec == Init /\ [][Next]_vars

\* concurrent requests: every slot receives a request; odd slots ask for the
\* baseline page (or send a blank username), even slots for a page that
\* lacks some fields
ConcInputs(r) ==
  IF r % 2 = 1
  THEN {[route |-> "GET", username |-> <<"a">>, site |-> BaselineSite],
        [route |-> "POST", username |-> <<" ">>, site |-> BaselineSite]}
  ELSE {[route |-> "POST", username |-> <<" ", "a">>,
         site |-> [BaselineSite EXCEPT !.html = PlainHtml, !.nodes[AwardsKey] = NoNode,
                                       !.raises = {PlanLen}]]}

InitConc ==
  /\ InitLocals
  /\ pc = [r \in Requests |-> "request"]
  /\ \E in \in {f \in [Requests -> UNION {ConcInputs(r) : r \in Requests}] :
                  \A r \in Requests : f[r] \in ConcInputs(r)} :
       /\ route = [r \in Requests |-> in[r].route]
       /\ username = [r \in Requests |-> in[r].username]
       /\ site = [r \in Requests |-> in[r].site]

SpecConc == InitConc /\ [][Next]_vars

\* one request against pages whose markup ranges over every short sequence
RegexInputs ==
  {[route |-> "GET", username |-> <<"a">>, site |-> [BaselineSite EXCEPT !.html = h]] :
     h \in SeqsUpTo(HtmlAlphabet, MaxHtmlLen)}
  \cup {[route |-> "POST", username |-> u, site |-> BaselineSite] : u \in {<<>>, <<"a">>}}

InitRegex == InitLocals /\ OneRequest(RegexInputs)

SpecRegex == InitRegex /\ [][Next]_vars

\* one request against pages whose "Awards" container ranges over every short
\* text, or has no matching node
TextInputs ==
  {[route |-> "GET", username |-> <<"a">>,
    site |-> [BaselineSite EXCEPT !.nodes[AwardsKey] = t]] :
     t \in SeqsUpTo(TextAlphabet, MaxTextLen) \cup {NoNode}}
  \cup {[route |-> "POST", username |-> u, site |-> BaselineSite] : u \in {<<>>, <<"a">>}}

InitText == InitLocals /\ OneRequest(TextInputs)

SpecText == InitText /\ [][Next]_vars

\* ---- vocabulary of the properties ----
Done(r) == pc[r] = "done"
Status(r) == responses[r][1].status
Body(r) == responses[r][1].body
Ok(r) == Done(r) /\ Len(responses[r]) = 1 /\ Status(r) = 200
CloseCount(r) == Cardinality({i \in 1..Len(calls[r]) : calls[r][i] = <<"close">>})
Launched(r) == browser[r] # 0
Blank(u) == \A i \in 1..Len(u) : u[i] \in Whitespace
Assigned(r, i) == \/ pc[r] \in {"close", "done"} /\ idx[r] = PlanLen
                  \/ pc[r] = "extract" /\ idx[r] > i

\* a numeric string: digits, possibly comma-grouped
Numeric(v) ==
  /\ v # None
  /\ Len(v) > 0
  /\ \A i \in 1..Len(v) : IsDigit(v[i]) \/ v[i] = ","

\* the lookup of extraction step i fails on page s: its driver call raises,
\* or no node matches its label
LookupFails(s, i) ==
  \/ i \in s.raises
  \/ i \in LabelSteps /\ s.nodes[NodeKey(ExtractionPlan[i].label)] = NoNode

\* C1 (as claimed): whenever scrape_codolio returns a result, each of the seven
\* basicStats keys and the nine problemsSolved keys is present and holds a
\* numeric string or "0", never null
C1_StatsPresentAndNumeric ==
  \A r \in Requests :
    Ok(r) =>
      /\ DOMAIN Body(r).data.basicStats = BasicStatsKeys
      /\ DOMAIN Body(r).data.problemsSolved = ProblemsSolvedKeys
      /\ \A k \in BasicStatsKeys : Numeric(Body(r).data.basicStats[k])
      /\ \A k \in ProblemsSolvedKeys : Numeric(Body(r).data.problemsSolved[k])

\* C2: after a timeout of the landmark wait the request ends with exactly one
\* response, a 504, and its browser has been closed exactly once
C2_LandmarkTimeoutGives504 ==
  \A r \in Requests :
    (fault[r].step = "wait_for_selector" /\ fault[r].type = "PWTimeout") =>
      /\ CloseCount(r) <= 1
      /\ Done(r) =>
           /\ Len(responses[r]) = 1
           /\ Status(r) = 504
           /\ CloseCount(r) = 1
           /\ browsers[browser[r]].closeCalls = 1
           /\ ~browsers[browser[r]].open

C2_Witness ==
  \E r \in Requests :
    /\ Done(r)
    /\ fault[r].step = "wait_for_selector"
    /\ fault[r].type = "PWTimeout"
    /\ Status(r) = 504
    /\ CloseCount(r) = 1

\* C3 (as claimed): on every exit of scrape_codolio taken after the browser
\* was launched, browser.close() has been called exactly once
C3_ClosedOnEveryExit ==
  \A r \in Requests :
    /\ CloseCount(r) <= 1
    /\ (Done(r) /\ Launched(r)) => CloseCount(r) = 1

\* C4 (as claimed): a timeout at browser launch, context or page creation,
\* navigation or landmark wait ends in a 504; any other failure ends in a 500
\* whose detail carries the failure message
C4_TimeoutIs504ElseIs500 ==
  \A r \in Requests :
    (Done(r) /\ fault[r] # NoFault) =>
      IF fault[r].type = "PWTimeout"
      THEN Status(r) = 504
      ELSE /\ Status(r) = 500
           /\ \E k \in 0..Len(Body(r).detail) :
                SubSeq(Body(r).detail, k + 1, Len(Body(r).detail)) = fault[r].msg

\* C5: a request whose username is empty or all whitespace makes no driver
\* call at all (no launch, no navigation) and ends with a single 400
C5_BlankUsernameGives400 ==
  \A r \in Requests :
    (pc[r] # "unused" /\ Blank(username[r])) =>
      /\ calls[r] = <<>>
      /\ playwright[r] = "none"
      /\ ~Launched(r)
      /\ pc[r] \in {"request", "done"}
      /\ Done(r) => (Len(responses[r]) = 1 /\ Status(r) = 400)

C5_Witness ==
  \E r \in Requests :
    /\ Done(r)
    /\ Len(username[r]) > 0
    /\ Blank(username[r])
    /\ Status(r) = 400
    /\ calls[r] = <<>>

\* C6 (as claimed): once the page has loaded, a field whose lookup fails holds
\* its sentinel ("0" for basicStats and problemsSolved, no entry for a contest
\* rating), every later field is still looked up and the request ends with 200
C6_FailedLookupGivesSentinel ==
  \A r \in Requests :
    /\ \A i \in PlanSteps :
         (Assigned(r, i) /\ LookupFails(site[r], i)) =>
           CASE ExtractionPlan[i].group = "basicStats" ->
                  data[r].basicStats[ExtractionPlan[i].key] = ZERO
             [] ExtractionPlan[i].group = "problemsSolved" ->
                  data[r].problemsSolved[ExtractionPlan[i].key] = ZERO
             [] OTHER -> ExtractionPlan[i].key \notin DOMAIN data[r].contestRankings
    /\ (Done(r) /\ idx[r] >= 1) =>
         /\ Status(r) = 200
         /\ \A i \in PlanSteps : \E j \in 1..Len(calls[r]) : calls[r][j] = StepName(i)

\* C7: a request has at most one response and exactly one when it is over:
\* a 200 with the whole envelope and no failure behind it, or one error
C7_ExactlyOneOutcome ==
  \A r \in Requests :
    /\ Len(responses[r]) <= 1
    /\ Done(r) <=> Len(responses[r]) = 1
    /\ Done(r) =>
         /\ Status(r) \in {200, 400, 500, 504}
         /\ Status(r) = 200 =>
              /\ DOMAIN Body(r) = {"success", "username", "data"}
              /\ Body(r).success = TRUE
              /\ Body(r).username = username[r]
              /\ DOMAIN Body(r).data = {"basicStats", "problemsSolved", "contestRankings"}
              /\ fault[r] = NoFault
         /\ Status(r) # 200 => DOMAIN Body(r) = {"detail"}
         /\ fault[r] # NoFault => Status(r) \in {500, 504}

C7_Witness == \E r \in Requests : Ok(r) /\ DOMAIN Body(r).data.basicStats = BasicStatsKeys


\* ---- find_number_by_regex, stated over positions of the markup ----
SubmissionsStep == CHOOSE i \in PlanSteps : ExtractionPlan[i].fn = "find_number_by_regex"
AllSpace(h, a, b) == \A k \in a..b : h[k] \in Whitespace
AllDigits(h, a, b) == a <= b /\ \A k \in a..b : h[k] \in Digits
IsSubmissionsWord(c) == c \in {"submissions", "Submissions", "SUBMISSIONS"}

\* <<d, e>>: h[d..e] is a whole numeric token, followed, after optional
\* whitespace, by the word "submissions" in any letter case
TokensBeforeSubmissions(h) ==
  {t \in (1..Len(h)) \X (1..Len(h)) :
     /\ AllDigits(h, t[1], t[2])
     /\ (t[1] = 1 \/ h[t[1] - 1] \notin Digits)
     /\ \E w \in (t[2] + 1)..Len(h) :
          AllSpace(h, t[2] + 1, w - 1) /\ IsSubmissionsWord(h[w])}

\* <<i, d, e>>: a '>' at i, optional whitespace, the digits h[d..e], optional
\* whitespace, the word "submissions" in any letter case, a word boundary
AnchoredTokens(h) ==
  {t \in (1..Len(h)) \X (1..Len(h)) \X (1..Len(h)) :
     /\ h[t[1]] = ">"
     /\ t[1] < t[2]
     /\ AllSpace(h, t[1] + 1, t[2] - 1)
     /\ AllDigits(h, t[2], t[3])
     /\ \E w \in (t[3] + 1)..Len(h) :
          /\ AllSpace(h, t[3] + 1, w - 1)
          /\ IsSubmissionsWord(h[w])
          /\ (w = Len(h) \/ h[w + 1] \in NonWord)}

LeftmostAnchored(h) ==
  CHOOSE t \in AnchoredTokens(h) : \A u \in AnchoredTokens(h) : t[1] <= u[1]

\* C8 (as claimed): when the markup holds a numeric token followed by the word
\* "submissions", total_submissions is such a token, whatever precedes it
C8_AnyTokenBeforeSubmissions ==
  \A r \in Requests :
    (/\ Assigned(r, SubmissionsStep)
     /\ SubmissionsStep \notin site[r].raises
     /\ TokensBeforeSubmissions(site[r].html) # {}) =>
      \E t \in TokensBeforeSubmissions(site[r].html) :
        data[r].basicStats["total_submissions"] = SubSeq(site[r].html, t[1], t[2])

\* C8 (amended): total_submissions is the digit run of the leftmost
\* occurrence of '>' + optional whitespace + digits + optional whitespace +
\* "submissions" (any letter case) + word boundary, and null without one
C8_AnchoredTokenBeforeSubmissions ==
  \A r \in Requests :
    (Assigned(r, SubmissionsStep) /\ SubmissionsStep \notin site[r].raises) =>
      data[r].basicStats["total_submissions"] =
        IF AnchoredTokens(site[r].html) = {} THEN None
        ELSE SubSeq(site[r].html, LeftmostAnchored(site[r].html)[2],
                    LeftmostAnchored(site[r].html)[3])

C8_Witness ==
  \E r \in Requests :
    /\ Ok(r)
    /\ site[r].html = <<">", "8", "7", "Submissions">>
    /\ Body(r).data.basicStats["total_submissions"] = <<"8", "7">>

\* ---- get_number_after_text, stated over positions of the container text ----
AwardsStep == CHOOSE i \in PlanSteps : ExtractionPlan[i].key = "awards"
AwardsLabel == ExtractionPlan[AwardsStep].label

\* the label occurs at position p of the text, letter case ignored
LabelAt(t, label, p) ==
  /\ p + Len(label) - 1 <= Len(t)
  /\ \A k \in 1..Len(label) : LowerChar(t[p + k - 1]) = LowerChar(label[k])

\* t[a..b] is a comma-grouped digit run that cannot be extended to the right
GroupedRun(t, a, b) ==
  /\ a <= b
  /\ t[a] \in Digits
  /\ t[b] \in Digits
  /\ \A k \in a..b : t[k] \in Digits \cup {","}
  /\ \A k \in a..(b - 1) : ~(t[k] = "," /\ t[k + 1] = ",")
  /\ ~(b < Len(t) /\ t[b + 1] \in Digits)
  /\ ~(b + 1 < Len(t) /\ t[b + 1] = "," /\ t[b + 2] \in Digits)

\* the first digit run at or after position p, None if there is none
FirstRunFrom(t, p) ==
  IF \A k \in p..Len(t) : t[k] \notin Digits THEN None
  ELSE LET a == CHOOSE k \in p..Len(t) :
                  t[k] \in Digits /\ \A j \in p..(k - 1) : t[j] \notin Digits
           b == CHOOSE k \in a..Len(t) : GroupedRun(t, a, k)
       IN SubSeq(t, a, b)

ExpectedNumber(t, label) ==
  IF \E p \in 1..Len(t) : LabelAt(t, label, p)
  THEN LET p == CHOOSE q \in 1..Len(t) :
                  LabelAt(t, label, q) /\ \A j \in 1..(q - 1) : ~LabelAt(t, label, j)
       IN IF FirstRunFrom(t, p) # None THEN FirstRunFrom(t, p) ELSE FirstRunFrom(t, 1)
  ELSE FirstRunFrom(t, 1)

\* C9 (as claimed): get_number_after_text is null without a matching node;
\* otherwise it is the first comma-grouped digit run after the label's
\* position in the container text, else the first run anywhere, else null
C9_FirstNumberAfterLabel ==
  \A r \in Requests :
    (Assigned(r, AwardsStep) /\ AwardsStep \notin site[r].raises) =>
      data[r].basicStats["awards"] =
        IF site[r].nodes[AwardsKey] = NoNode THEN None
        ELSE ExpectedNumber(site[r].nodes[AwardsKey], AwardsLabel)

\* ---- isolation of concurrent requests ----
RECURSIVE DataAfter(_, _)
DataAfter(s, n) == IF n = 0 THEN EmptyData ELSE Store(DataAfter(s, n - 1), n, s)

ScrapeStatus(f) ==
  IF f = NoFault THEN 200
  ELSE IF f.step \in {"goto", "wait_for_selector"} /\ f.type = "PWTimeout" THEN 504
  ELSE 500

\* C10: a request's browser is one it launched itself and nobody else holds or
\* closes it; the data it gathers come from its own page and start empty; its
\* response follows from its own input and its own failure alone
C10_RequestsAreIsolated ==
  \A r \in Requests :
    /\ Launched(r) =>
         /\ browsers[browser[r]].owner = r
         /\ browsers[browser[r]].closedBy \subseteq {r}
         /\ \A q \in Requests \ {r} : browser[q] # browser[r]
    /\ pc[r] = "extract" => data[r] = DataAfter(site[r], idx[r] - 1)
    /\ pc[r] = "close" => data[r] = DataAfter(site[r], PlanLen)
    /\ Done(r) =>
         /\ Len(responses[r]) = 1
         /\ Status(r) = IF Blank(username[r]) THEN 400 ELSE ScrapeStatus(fault[r])
         /\ Status(r) = 200 =>
              Body(r) = [success |-> TRUE, username |-> username[r],
                         data |-> DataAfter(site[r], PlanLen)]

C10_Witness ==
  \E r, q \in Requests :
    /\ r # q
    /\ site[r] # site[q]
    /\ Ok(r)
    /\ fault[q].type = "PWTimeout"
    /\ pc[q] = "except_PWTimeout"
    /\ browsers[browser[q]].open
    /\ ~browsers[browser[r]].open
====
